---- MODULE Spec2Model ----
(***************************************************************************)
(* The favorites engine of the AR furniture shop backend                   *)
(* (src/products/product_routes.py over the tables of src/models.py), with *)
(* the auth routes (src/auth/auth_routes.py) and the jwt_required gate.    *)
(*                                                                         *)
(* Every request runs in its own SQLAlchemy session against PostgreSQL     *)
(* (src/config.py:8), whose default isolation is READ COMMITTED: each      *)
(* statement of a handler sees what is committed when it runs.  A handler  *)
(* is therefore a sequence of store round-trips, one action each, and the  *)
(* round-trips of concurrent requests interleave.  A write and the commit  *)
(* that follows it are one action, taken at the commit: rows written by an *)
(* open transaction are invisible to the others, and a conflicting write   *)
(* of another transaction waits for that commit.                           *)
(***************************************************************************)
EXTENDS Integers, Sequences, FiniteSets, TLC

\* ---------------------------------------------------------------- bounds
\* Row ids come from a serial column: inserts are attempted while nextId <= MaxId.
MaxId == 3
\* The clock that stamps added_at takes the values 0..MaxTime.
MaxTime == 1

\* User ids come from a serial column: inserts are attempted while nextUserId <= MaxUserId.
MaxUserId == 4

\* ------------------------------------------------------------- constants
\* per_page used when the given one is below 1 (also the default of the argument).
DefaultPerPage == 12
\* the largest per_page served
MaxPerPage == 100
\* page used when the given one is below 1 (also the default of the argument).
DefaultPage == 1

\* ------------------------------------------------------------------ data
\* Request slots: requests are handled independently, two at a time here.
Procs == {"r1", "r2"}

\* Rows of table users (ids only: favorites read nothing else of a user).
Users == {1, 2}
\* The rows of table users at the start: user n registered with email n, username n
\* and password n.
UserRows == {[id |-> n, email |-> n, username |-> n, password |-> n] : n \in Users}
\* Subjects a valid token can carry: the users, and 3, the id of a user whose
\* row is gone (int(get_jwt_identity()) of a token issued before the removal).
Identities == {1, 2, 3}

\* Rows of table products, by id: the columns the favorites queries order by.
\* Names and prices are ranks; products 2 and 3 tie on name, 1 and 3 on price.
Catalog == <<[name |-> 1, price |-> 2], [name |-> 2, price |-> 1], [name |-> 2, price |-> 2]>>
Products == DOMAIN Catalog
\* <int:product_id> of the URL: the products, and 4, which is no product.
ProductIds == Products \cup {4}

VARIABLES
  users,      \* table users: rows [id, email, username, password]
  nextUserId, \* the serial sequence of users.id
  products,   \* table products: the ids of its rows (their columns are in Catalog)
  category,   \* column products.category, by product id
  favorites,  \* table user_favorites: rows [id, user_id, product_id, added_at]
  nextId,     \* the serial sequence of user_favorites.id
  now,        \* datetime.utcnow, as a tick count
  trips,      \* per slot: the SQL statements the request has sent so far
  pc,         \* per slot: the round-trip its handler is at
  op,         \* per slot: the request being handled (or last handled)
  loc,        \* per slot: the handler's local variables
  resp,       \* per slot: the response of the finished request
  prev        \* per slot: the response its client got to the request before

vars == <<users, nextUserId, products, category, favorites, nextId, now, trips, pc, op, loc, resp, prev>>

\* ------------------------------------------------------------- requests
\* A query-string argument: absent, or an integer.
NoArg == [given |-> FALSE, val |-> 0]
Arg(v) == [given |-> TRUE, val |-> v]

\* cred is the Authorization header of the request; email, username and password
\* are the fields of a register or login body, 0 for a field left out.
NoReq == [op |-> "none", uid |-> 0, pid |-> 0, page |-> NoArg, per_page |-> NoArg, sort_by |-> "name",
          cred |-> "valid", email |-> 0, username |-> 0, password |-> 0]
Req(o, u, pr) == [NoReq EXCEPT !.op = o, !.uid = u, !.pid = pr]
ListReq(u, pg, pp, sb) == [NoReq EXCEPT !.op = "list", !.uid = u, !.page = pg, !.per_page = pp, !.sort_by = sb]

NoLoc == [fav |-> 0, count |-> 0, page |-> 0, per_page |-> 0, items |-> <<>>, rows |-> {}]
NoBody == [none |-> TRUE]
NoResp == [req |-> NoReq, status |-> 0, success |-> FALSE, message |-> "", body |-> NoBody]

\* ----------------------------------------------------------------- store
FavoritesOf_AllUsers(u) == favorites

\* UserFavorite.query.filter_by(user_id=u)
FavoritesOf(u) == {f \in favorites : f.user_id = u}

\* UserFavorite.query.filter_by(user_id=u, product_id=pr): the matching rows.
FilterByPair(u, pr) == {f \in favorites : f.user_id = u /\ f.product_id = pr}

UniqueViolation_NoConstraint(u, pr) == FALSE

\* UniqueConstraint('user_id', 'product_id'): whether inserting (u, pr) violates it.
UniqueViolation(u, pr) == \E f \in favorites : f.user_id = u /\ f.product_id = pr

ForeignKeyViolation_NoConstraint(u, pr) == FALSE

\* db.ForeignKey('users.id'), db.ForeignKey('products.id'): whether a favorite row
\* of user u and product pr violates them.
ForeignKeyViolation(u, pr) == (\A r \in users : r.id # u) \/ pr \notin products

\* ---------------------------------------------------------- control flow
\* What a specification's requests are drawn from: the token subjects, the product
\* ids, the List arguments, and hist: whether a slot is one client's session, which
\* keeps the response to its previous request.
Inputs(ids, pids, pages, perPages, sorts, hist) ==
  [ids |-> ids, pids |-> pids, pages |-> pages, perPages |-> perPages, sorts |-> sorts, hist |-> hist]

\* A request r arrives at the free slot p.
Start(p, r) ==
  /\ pc[p] = "idle"
  /\ op' = [op EXCEPT ![p] = r]

\* The requests in flight that will draw an id at one of the round-trips in at:
\* a request that inserts is taken on while the ids up to the bound suffice for it.
InFlight(at) == Cardinality({q \in Procs : pc[q] \in at})

\* slot p sends n more SQL statements (SELECT, INSERT, DELETE) to the database
Trip(p, n) == trips' = [trips EXCEPT ![p] = @ + n]

\* The response is delivered and the slot is free again.
Return(p, I) ==
  /\ pc[p] = "done"
  /\ pc' = [pc EXCEPT ![p] = "idle"]
  /\ op' = [op EXCEPT ![p] = NoReq]
  /\ resp' = [resp EXCEPT ![p] = NoResp]
  /\ prev' = [prev EXCEPT ![p] = IF I.hist THEN resp[p] ELSE NoResp]
  /\ trips' = [trips EXCEPT ![p] = 0]
  /\ UNCHANGED <<category, users, nextUserId, products, favorites, nextId, now, loc>>

\* return jsonify({'success': ..., 'message': ..., ...}), status: the answer to request r
Reply(p, r, st, msg, b) ==
  /\ pc' = [pc EXCEPT ![p] = "done"]
  /\ loc' = [loc EXCEPT ![p] = NoLoc]
  /\ resp' = [resp EXCEPT ![p] = [req |-> r, status |-> st, success |-> (st < 400), message |-> msg, body |-> b]]

\* the handler goes on to its next round-trip
Goto(p, next, l) ==
  /\ pc' = [pc EXCEPT ![p] = next]
  /\ loc' = [loc EXCEPT ![p] = l]
  /\ resp' = [resp EXCEPT ![p] = NoResp]

\* Column products.category is String(80), nullable: a value is None, the empty
\* string, or a non-empty string, here its rank among the strings ('' sorts first).
None == 0 - 1
CategoryValues == {None, 0, 1, 2}

Init ==
  /\ category = [pr \in Products |-> 1]
  /\ users = UserRows
  /\ nextUserId = 3
  /\ products = Products
  /\ trips = [p \in Procs |-> 0]
  /\ favorites = {}
  /\ nextId = 1
  /\ now = 0
  /\ pc = [p \in Procs |-> "idle"]
  /\ op = [p \in Procs |-> NoReq]
  /\ loc = [p \in Procs |-> NoLoc]
  /\ resp = [p \in Procs |-> NoResp]
  /\ prev = [p \in Procs |-> NoResp]

\* ------------------------------------------------------- add_to_favorite
\* user = User.query.get(user_id); the truth of `user`
UserExists(u) == \E r \in users : r.id = u

ProductExists_Unchecked(pr) == TRUE

\* product = Product.query.get(product_id); the truth of `product`
ProductExists(pr) == pr \in products

\* user_id = int(get_jwt_identity()); the check that the user exists
AddGetUser(p, I) ==
  \E u \in I.ids, pr \in I.pids :
    /\ Start(p, Req("add", u, pr))
    /\ nextId + InFlight({"add_product", "add_existing", "add_commit"}) <= MaxId
    /\ IF ~UserExists(u)
         THEN Reply(p, Req("add", u, pr), 404, "User not found", NoBody)
         ELSE Goto(p, "add_product", NoLoc)
    /\ Trip(p, 1)
    /\ UNCHANGED <<category, users, nextUserId, products, favorites, nextId, now, prev>>

\* the check that the product exists
AddGetProduct(p) ==
  /\ pc[p] = "add_product"
  /\ IF ~ProductExists(op[p].pid)
       THEN Reply(p, op[p], 404, "Product not found", NoBody)
       ELSE Goto(p, "add_existing", NoLoc)
  /\ Trip(p, 1)
  /\ UNCHANGED <<category, users, nextUserId, products, favorites, nextId, now, op, prev>>

ExistingFavorite_Unchecked(u, pr) == {}

\* existing = UserFavorite.query.filter_by(user_id=..., product_id=...).first(),
\* as the set of rows first() picks from
ExistingFavorite(u, pr) == FilterByPair(u, pr)

\* the check that the product is not yet a favorite
AddCheckExisting(p) ==
  /\ pc[p] = "add_existing"
  /\ IF ExistingFavorite(op[p].uid, op[p].pid) # {}
       THEN Reply(p, op[p], 409, "Product already in favorites", NoBody)
       ELSE Goto(p, "add_commit", NoLoc)
  /\ Trip(p, 1)
  /\ UNCHANGED <<category, users, nextUserId, products, favorites, nextId, now, op, prev>>

\* db.session.add(new_favorite); db.session.commit(). The INSERT draws an id and
\* stamps added_at = utcnow(); a violated unique or foreign-key constraint raises
\* IntegrityError, which the handler's except answers with rollback and 500.
AddCommit(p) ==
  /\ pc[p] = "add_commit"
  /\ nextId <= MaxId
  /\ nextId' = nextId + 1
  /\ \E t \in {now, now + 1} :
       /\ t <= MaxTime
       /\ now' = t
       /\ IF ForeignKeyViolation(op[p].uid, op[p].pid)
            THEN /\ favorites' = favorites
                 /\ Reply(p, op[p], 500, "Error: IntegrityError foreign key", NoBody)
            ELSE IF UniqueViolation(op[p].uid, op[p].pid)
            THEN /\ favorites' = favorites
                 /\ Reply(p, op[p], 500, "Error: IntegrityError unique_user_product", NoBody)
            ELSE /\ favorites' = favorites \cup
                       {[id |-> nextId, user_id |-> op[p].uid, product_id |-> op[p].pid, added_at |-> t]}
                 /\ Goto(p, "add_to_dict", [NoLoc EXCEPT !.fav = nextId])
  /\ Trip(p, 1)
  /\ UNCHANGED <<category, users, nextUserId, products, op, prev>>

\* new_favorite.to_dict(): the commit expired the instance, so reading it selects
\* the row again; a row deleted meanwhile raises ObjectDeletedError (500).
AddToDict(p) ==
  /\ pc[p] = "add_to_dict"
  /\ LET rows == {f \in favorites : f.id = loc[p].fav} IN
       IF rows = {}
         THEN Reply(p, op[p], 500, "Error: ObjectDeletedError", NoBody)
         ELSE Reply(p, op[p], 201, "Product added to favorites", [favorite |-> CHOOSE f \in rows : TRUE])
  /\ Trip(p, IF \E f \in favorites : f.id = loc[p].fav THEN 2 ELSE 1)
  /\ UNCHANGED <<category, users, nextUserId, products, favorites, nextId, now, op, prev>>

\* -------------------------------------------------- remove_from_favorite
FindFavorite_OfAnyUser(u, pr) == {f \in favorites : f.product_id = pr}

\* UserFavorite.query.filter_by(user_id=user_id, product_id=product_id), from which
\* first() takes the favorite to delete
FindFavorite(u, pr) == FilterByPair(u, pr)

\* favorite = UserFavorite.query.filter_by(...).first()
RemoveFind(p, I) ==
  \E u \in I.ids, pr \in I.pids :
    /\ Start(p, Req("remove", u, pr))
    /\ LET found == FindFavorite(u, pr) IN
         IF found = {}
           THEN Reply(p, Req("remove", u, pr), 404, "Product is not in favorites", NoBody)
           ELSE \E f \in found : Goto(p, "remove_commit", [NoLoc EXCEPT !.fav = f.id])
    /\ Trip(p, 1)
    /\ UNCHANGED <<category, users, nextUserId, products, favorites, nextId, now, prev>>

DeleteRow_ByProduct(fid) == {f \in favorites : \A g \in favorites : g.id = fid => g.product_id # f.product_id}

\* DELETE FROM user_favorites WHERE id = fid: the table after it
DeleteRow(fid) == {f \in favorites : f.id # fid}

\* db.session.delete(favorite); db.session.commit(). The DELETE is by primary key;
\* when the row is already gone it matches nothing, which SQLAlchemy reports as a
\* warning (confirm_deleted_rows), not as an exception.
RemoveCommit(p) ==
  /\ pc[p] = "remove_commit"
  /\ favorites' = DeleteRow(loc[p].fav)
  /\ Reply(p, op[p], 200, "Product removed from favorites", NoBody)
  /\ Trip(p, 1)
  /\ UNCHANGED <<category, users, nextUserId, products, nextId, now, op, prev>>

\* ----------------------------------------------------------- is_favorite
IsFavoriteResult_Always(u, pr) == TRUE

\* favorite is not None, for favorite = UserFavorite.query.filter_by(...).first()
IsFavoriteResult(u, pr) == FilterByPair(u, pr) # {}

IsFavorite(p, I) ==
  \E u \in I.ids, pr \in I.pids :
    /\ Start(p, Req("is_favorite", u, pr))
    /\ Reply(p, Req("is_favorite", u, pr), 200, "", [is_favorite |-> IsFavoriteResult(u, pr)])
    /\ Trip(p, 1)
    /\ UNCHANGED <<category, users, nextUserId, products, favorites, nextId, now, prev>>

\* --------------------------------------------------- clear_all_favorites
\* count = UserFavorite.query.filter_by(user_id=user_id).count()
ClearCount(p, I) ==
  \E u \in I.ids :
    /\ Start(p, Req("clear", u, 0))
    /\ Goto(p, "clear_delete", [NoLoc EXCEPT !.count = Cardinality(FavoritesOf(u))])
    /\ Trip(p, 1)
    /\ UNCHANGED <<category, users, nextUserId, products, favorites, nextId, now, prev>>

\* UserFavorite.query.filter_by(user_id=user_id).delete(); db.session.commit()
ClearDelete(p) ==
  /\ pc[p] = "clear_delete"
  /\ favorites' = favorites \ FavoritesOf(op[p].uid)
  /\ Reply(p, op[p], 200, "Deleted count products from favorites", [deleted_count |-> loc[p].count])
  /\ Trip(p, 1)
  /\ UNCHANGED <<category, users, nextUserId, products, nextId, now, op, prev>>

\* ------------------------------------------------------ get_my_favorites
\* request.args.get(name, default, type=int)
ArgInt(a, default) == IF a.given THEN a.val ELSE default

\* if page < 1: page = 1
NormPage(page) == IF page < 1 THEN DefaultPage ELSE page

NormPerPage_NoCap(per_page) == IF per_page < 1 THEN DefaultPerPage ELSE per_page

\* if per_page < 1: per_page = 12; if per_page > 100: per_page = 100
NormPerPage(per_page) ==
  LET pp == IF per_page < 1 THEN DefaultPerPage ELSE per_page
  IN  IF pp > MaxPerPage THEN MaxPerPage ELSE pp

SortKey_PriceDescAscending(f, sort_by) ==
  CASE sort_by = "price_asc" -> Catalog[f.product_id].price
    [] sort_by = "price_desc" -> Catalog[f.product_id].price
    [] sort_by = "newest" -> 0 - f.added_at
    [] OTHER -> Catalog[f.product_id].name

\* The key of the ORDER BY clause, ascending: order_by(Product.price.asc()),
\* order_by(Product.price.desc()), order_by(desc(UserFavorite.added_at)),
\* order_by(Product.name.asc()) for 'name' and for anything else.
SortKey(f, sort_by) ==
  CASE sort_by = "price_asc" -> Catalog[f.product_id].price
    [] sort_by = "price_desc" -> 0 - Catalog[f.product_id].price
    [] sort_by = "newest" -> 0 - f.added_at
    [] OTHER -> Catalog[f.product_id].name

\* The orders in which the database may return rows for that ORDER BY: rows with
\* equal keys come in any order.
Ordered(rows, sort_by) ==
  {s \in [1 .. Cardinality(rows) -> rows] :
     /\ \A i, j \in DOMAIN s : i # j => s[i] # s[j]
     /\ \A i, j \in DOMAIN s : i < j => SortKey(s[i], sort_by) <= SortKey(s[j], sort_by)}

LazyLoads_Joined(items) == 0

\* fav.product for each row of the page: the relationship is lazy, so each access
\* selects the product of the row
LazyLoads(items) == Len(items)

PageOf_FromZero(s, page, per_page) ==
  SubSeq(s, page * per_page + 1, IF (page + 1) * per_page < Len(s) THEN (page + 1) * per_page ELSE Len(s))

\* query.limit(per_page).offset((page - 1) * per_page) of paginate()
PageOf(s, page, per_page) ==
  SubSeq(s, (page - 1) * per_page + 1, IF page * per_page < Len(s) THEN page * per_page ELSE Len(s))

\* Pagination.pages: 0 when total is 0, else ceil(total / per_page)
Pages(total, per_page) == IF total = 0 THEN 0 ELSE (total + per_page - 1) \div per_page

\* the arguments, their validation, and total = query.count()
ListCount(p, I) ==
  \E u \in I.ids, pg \in I.pages, pp \in I.perPages, sb \in I.sorts :
    /\ Start(p, ListReq(u, pg, pp, sb))
    /\ Goto(p, "list_items", [NoLoc EXCEPT !.count = Cardinality(FavoritesOf(u)),
                                            !.page = NormPage(ArgInt(pg, DefaultPage)),
                                            !.per_page = NormPerPage(ArgInt(pp, DefaultPerPage))])
    /\ Trip(p, 1)
    /\ UNCHANGED <<category, users, nextUserId, products, favorites, nextId, now, prev>>

\* query.paginate(page=page, per_page=per_page, error_out=False): the page's rows
ListItems(p) ==
  /\ pc[p] = "list_items"
  /\ \E s \in Ordered(FavoritesOf(op[p].uid), op[p].sort_by) :
       Goto(p, "list_pages", [loc[p] EXCEPT !.items = PageOf(s, loc[p].page, loc[p].per_page)])
  /\ Trip(p, 1)
  /\ UNCHANGED <<category, users, nextUserId, products, favorites, nextId, now, op, prev>>

\* paginate()'s own count of the query, from which paginated.pages is computed;
\* then the response, with fav.product.to_dict() for each row of the page
ListPages(p) ==
  /\ pc[p] = "list_pages"
  /\ Reply(p, op[p], 200, "",
           [count |-> loc[p].count, page |-> loc[p].page, per_page |-> loc[p].per_page,
            total_pages |-> Pages(Cardinality(FavoritesOf(op[p].uid)), loc[p].per_page),
            favorites |-> [i \in DOMAIN loc[p].items |-> loc[p].items[i].product_id]])
  /\ Trip(p, 1 + LazyLoads(loc[p].items))
  /\ UNCHANGED <<category, users, nextUserId, products, favorites, nextId, now, op, prev>>

\* --------------------------------------------------------------- register
\* What the requests of the auth routes are drawn from: the emails, usernames and
\* passwords of the bodies (0: the field is left out) and the Authorization
\* headers of requests to protected routes.
AuthInputs(emails, usernames, passwords, creds) ==
  [emails |-> emails, usernames |-> usernames, passwords |-> passwords, creds |-> creds]

\* a register or login request
AuthReq(o, e, un, pw) == [NoReq EXCEPT !.op = o, !.email = e, !.username = un, !.password = pw]

\* User.query.filter_by(email=e).first(), as the set of rows first() picks from
ByEmail(e) == {r \in users : r.email = e}

\* User.query.filter_by(username=un).first(), likewise
ByUsername(un) == {r \in users : r.username = un}

UserUniqueViolation_NoConstraint(e, un) == FALSE

\* email and username are unique=True: whether inserting a user (e, un) violates it.
UserUniqueViolation(e, un) == \E r \in users : r.email = e \/ r.username = un

\* data = request.get_json(), the check of the required fields, the check of the email
RegCheckEmail(p, I) ==
  \E e \in I.emails, un \in I.usernames, pw \in I.passwords :
    LET r == AuthReq("register", e, un, pw) IN
    /\ Start(p, r)
    /\ nextUserId + InFlight({"reg_username", "reg_commit"}) <= MaxUserId
    /\ IF e = 0 \/ un = 0 \/ pw = 0
         THEN Reply(p, r, 400, "Fill in all required fields", NoBody) /\ Trip(p, 0)
         ELSE IF ByEmail(e) # {}
         THEN Reply(p, r, 409, "A user with this email already exists", NoBody) /\ Trip(p, 1)
         ELSE Goto(p, "reg_username", NoLoc) /\ Trip(p, 1)
    /\ UNCHANGED <<category, users, nextUserId, products, favorites, nextId, now, prev>>

\* the check of the username
RegCheckUsername(p) ==
  /\ pc[p] = "reg_username"
  /\ IF ByUsername(op[p].username) # {}
       THEN Reply(p, op[p], 409, "This username is already taken", NoBody)
       ELSE Goto(p, "reg_commit", NoLoc)
  /\ Trip(p, 1)
  /\ UNCHANGED <<category, users, nextUserId, products, favorites, nextId, now, op, prev>>

\* db.session.add(new_user); db.session.commit(). The INSERT draws an id; a violated
\* unique constraint raises IntegrityError, answered with rollback and 500.
RegCommit(p) ==
  /\ pc[p] = "reg_commit"
  /\ nextUserId <= MaxUserId
  /\ nextUserId' = nextUserId + 1
  /\ IF UserUniqueViolation(op[p].email, op[p].username)
       THEN /\ users' = users
            /\ Reply(p, op[p], 500, "Registration error: IntegrityError", NoBody)
       ELSE /\ users' = users \cup {[id |-> nextUserId, email |-> op[p].email,
                                     username |-> op[p].username, password |-> op[p].password]}
            /\ Goto(p, "reg_to_dict", [NoLoc EXCEPT !.fav = nextUserId])
  /\ Trip(p, 1)
  /\ UNCHANGED <<category, products, favorites, nextId, now, op, prev>>

\* new_user.to_dict(): the commit expired the instance, so reading it selects the
\* row again; a row deleted meanwhile raises ObjectDeletedError (500).
RegToDict(p) ==
  /\ pc[p] = "reg_to_dict"
  /\ IF ~UserExists(loc[p].fav)
       THEN Reply(p, op[p], 500, "Registration error: ObjectDeletedError", NoBody)
       ELSE Reply(p, op[p], 201, "Account created", [user |-> loc[p].fav])
  /\ Trip(p, 1)
  /\ UNCHANGED <<category, users, nextUserId, products, favorites, nextId, now, op, prev>>

\* ------------------------------------------------------------------ login
CheckPassword_Always(r, pw) == TRUE

\* user.check_password(password): check_password_hash(self.password_hash, password)
CheckPassword(r, pw) == r.password = pw

\* the whole handler: one query, the user by email
Login(p, I) ==
  \E e \in I.emails, pw \in I.passwords :
    LET r == AuthReq("login", e, 0, pw) IN
    /\ Start(p, r)
    /\ IF e = 0 \/ pw = 0
         THEN Reply(p, r, 400, "Email and password are required", NoBody) /\ Trip(p, 0)
         ELSE /\ Trip(p, 1)
              /\ IF ByEmail(e) = {} \/ \A u \in ByEmail(e) : ~CheckPassword(u, pw)
                   THEN Reply(p, r, 401, "Wrong email or password", NoBody)
                   ELSE \E u \in ByEmail(e) :
                          Reply(p, r, 200, "Login successful", [access_token |-> [sub |-> u.id], user |-> u.id])
    /\ UNCHANGED <<category, users, nextUserId, products, favorites, nextId, now, prev>>

\* ---------------------------------------------------------------- profile
GetProfile(p, I) ==
  \E u \in I.ids :
    /\ Start(p, Req("profile", u, 0))
    /\ IF ~UserExists(u)
         THEN Reply(p, Req("profile", u, 0), 404, "User not found", NoBody)
         ELSE Reply(p, Req("profile", u, 0), 200, "", [user |-> u])
    /\ Trip(p, 1)
    /\ UNCHANGED <<category, users, nextUserId, products, favorites, nextId, now, prev>>

\* ---------------------------------------------------------- jwt_required
\* The routes decorated with @jwt_required().
ProtectedOps == {"profile", "add", "remove", "is_favorite", "list", "clear"}

\* The Authorization headers: a token this server issued and that has not expired,
\* no header, a header that is no 'Bearer <JWT>' or whose token does not decode,
\* a token past its expiry, a token signed with another key.
Credentials == {"valid", "absent", "malformed", "expired", "bad_signature"}

\* The status with which verify_jwt_in_request() turns the request down; the app
\* creates JWTManager(app) and registers no loader, so the defaults answer:
\* NoAuthorizationError and an expired token 401, any other invalid token 422.
JwtRejection(cred) ==
  CASE cred = "absent" -> [status |-> 401, msg |-> "Missing Authorization Header"]
    [] cred = "expired" -> [status |-> 401, msg |-> "Token has expired"]
    [] cred = "malformed" -> [status |-> 422, msg |-> "Not enough segments"]
    [] cred = "bad_signature" -> [status |-> 422, msg |-> "Signature verification failed"]

\* A request to a protected route is turned down by the decorator: the handler
\* does not run and no query is sent.
Unauthorized(p, I) ==
  \E o \in ProtectedOps, c \in I.creds \ {"valid"} :
    LET r == [NoReq EXCEPT !.op = o, !.cred = c] IN
    /\ Start(p, r)
    /\ Reply(p, r, JwtRejection(c).status, JwtRejection(c).msg, NoBody)
    /\ Trip(p, 0)
    /\ UNCHANGED <<category, users, nextUserId, products, favorites, nextId, now, prev>>

\* ------------------------------------------------------------- categories
\* db.session.query(Product.category).distinct().filter(Product.category != None).all()
DistinctCategories == {category[pr] : pr \in products} \ {None}

\* sorted(values): the values in ascending order
Sorted(values) ==
  CHOOSE s \in [1 .. Cardinality(values) -> values] : \A i, j \in DOMAIN s : i < j => s[i] < s[j]

\* GET /api/products/categories: sorted([cat[0] for cat in categories])
GetCategories(p) ==
  /\ Start(p, Req("categories", 0, 0))
  /\ Reply(p, Req("categories", 0, 0), 200, "", [categories |-> Sorted(DistinctCategories)])
  /\ Trip(p, 1)
  /\ UNCHANGED <<category, users, nextUserId, products, favorites, nextId, now, prev>>

\* GET /api/categories: sorted([cat[0] for cat in categories if cat[0]]); the empty
\* string is falsy
GetCategoriesAlias(p) ==
  /\ Start(p, Req("categories_alias", 0, 0))
  /\ Reply(p, Req("categories_alias", 0, 0), 200, "",
           [categories |-> Sorted({c \in DistinctCategories : c # 0})])
  /\ Trip(p, 1)
  /\ UNCHANGED <<category, users, nextUserId, products, favorites, nextId, now, prev>>

\* ------------------------------------------------ deletion of users, products
\* No route deletes a user or a product: the rows are deleted outside the routes,
\* through the ORM, whose relationships carry cascade='all, delete-orphan'.
\* db.session.delete(user): the user is fetched and its favorites collection loaded.
DeleteUserLoad(p, I) ==
  \E u \in I.ids :
    /\ Start(p, Req("delete_user", u, 0))
    /\ IF ~UserExists(u)
         THEN /\ Reply(p, Req("delete_user", u, 0), 404, "User not found", NoBody)
              /\ Trip(p, 1)
         ELSE /\ Goto(p, "delete_user_commit", [NoLoc EXCEPT !.rows = {f.id : f \in FavoritesOf(u)}])
              /\ Trip(p, 2)
    /\ UNCHANGED <<category, users, nextUserId, products, favorites, nextId, now, prev>>

\* The flush deletes the loaded favorites by primary key, then the user; a favorite
\* of the user committed since the load makes the DELETE of the user violate the
\* foreign key, and the transaction is rolled back.
DeleteUserCommit(p) ==
  /\ pc[p] = "delete_user_commit"
  /\ LET left == {f \in favorites : f.id \notin loc[p].rows} IN
       IF \E f \in left : f.user_id = op[p].uid
         THEN /\ UNCHANGED <<users, favorites>>
              /\ Reply(p, op[p], 500, "Error: IntegrityError foreign key", NoBody)
         ELSE /\ favorites' = left
              /\ users' = {r \in users : r.id # op[p].uid}
              /\ Reply(p, op[p], 200, "", NoBody)
  /\ Trip(p, Cardinality(loc[p].rows) + 1)
  /\ UNCHANGED <<category, nextUserId, products, nextId, now, op, prev>>

\* db.session.delete(product): the product is fetched and favorited_by loaded.
DeleteProductLoad(p, I) ==
  \E pr \in I.pids :
    /\ Start(p, Req("delete_product", 0, pr))
    /\ IF ~ProductExists(pr)
         THEN /\ Reply(p, Req("delete_product", 0, pr), 404, "Product not found", NoBody)
              /\ Trip(p, 1)
         ELSE /\ Goto(p, "delete_product_commit",
                      [NoLoc EXCEPT !.rows = {f.id : f \in {g \in favorites : g.product_id = pr}}])
              /\ Trip(p, 2)
    /\ UNCHANGED <<category, users, nextUserId, products, favorites, nextId, now, prev>>

\* The flush deletes the loaded favorites, then the product, under the foreign key.
DeleteProductCommit(p) ==
  /\ pc[p] = "delete_product_commit"
  /\ LET left == {f \in favorites : f.id \notin loc[p].rows} IN
       IF \E f \in left : f.product_id = op[p].pid
         THEN /\ UNCHANGED <<products, favorites>>
              /\ Reply(p, op[p], 500, "Error: IntegrityError foreign key", NoBody)
         ELSE /\ favorites' = left
              /\ products' = products \ {op[p].pid}
              /\ Reply(p, op[p], 200, "", NoBody)
  /\ Trip(p, Cardinality(loc[p].rows) + 1)
  /\ UNCHANGED <<category, users, nextUserId, nextId, now, op, prev>>

\* -------------------------------------------------------- specifications
Handler(p, I) ==
  \/ Return(p, I)
  \/ AddGetUser(p, I)
  \/ AddGetProduct(p)
  \/ AddCheckExisting(p)
  \/ AddCommit(p)
  \/ AddToDict(p)
  \/ RemoveFind(p, I)
  \/ RemoveCommit(p)
  \/ IsFavorite(p, I)
  \/ ClearCount(p, I)
  \/ ClearDelete(p)
  \/ ListCount(p, I)
  \/ ListItems(p)
  \/ ListPages(p)

\* Concurrent requests of user 1 on the products 1 and 2.
ConcInputs == Inputs({1}, {1, 2}, {Arg(1), Arg(2)}, {Arg(1)}, {"name"}, FALSE)

Next == \E p \in Procs : Handler(p, ConcInputs)

Spec == Init /\ [][Next]_vars

\* One client, one request after the other, remembering the previous response.
SeqInputs == Inputs(Identities, {1, 2, 4}, {Arg(1)}, {Arg(1)}, {"name"}, TRUE)

NextSeq == Handler("r1", SeqInputs)

SpecSeq == Init /\ [][NextSeq]_vars

\* One client listing the favorites of user 1 with every kind of argument, between
\* requests that change them.
ListInputs ==
  Inputs({1}, Products,
         {NoArg, Arg(0), Arg(1), Arg(2), Arg(3)},
         {NoArg, Arg(0), Arg(1), Arg(2), Arg(100), Arg(101)},
         {"name", "price_asc", "price_desc", "newest", "rating"}, FALSE)

NextList == Handler("r1", ListInputs)

SpecList == Init /\ [][NextList]_vars

\* One client paging through the favorites of user 1 by name, one item a page,
\* over the products 2 and 3, which have the same name.
TieInputs == Inputs({1}, {2, 3}, {Arg(1), Arg(2)}, {Arg(1)}, {"name"}, TRUE)

NextTie == Handler("r1", TieInputs)

SpecTie == Init /\ [][NextTie]_vars

\* Adds of product 1 by the users 1 and 2 next to deletions of users and of the product.
DelInputs == Inputs({1, 2}, {1}, {Arg(1)}, {Arg(1)}, {"name"}, FALSE)

NextDel ==
  \E p \in Procs :
    \/ Return(p, DelInputs)
    \/ AddGetUser(p, DelInputs)
    \/ AddGetProduct(p)
    \/ AddCheckExisting(p)
    \/ AddCommit(p)
    \/ AddToDict(p)
    \/ DeleteUserLoad(p, DelInputs)
    \/ DeleteUserCommit(p)
    \/ DeleteProductLoad(p, DelInputs)
    \/ DeleteProductCommit(p)

SpecDel == Init /\ [][NextDel]_vars

\* Concurrent requests to the auth routes, and requests the decorator turns down:
\* registrations with the held email 1 or the new email 3, and with the held
\* username 1 or the new username 3.
AuthRouteInputs ==
  Inputs({1, 3}, {1}, {Arg(1)}, {Arg(1)}, {"name"}, FALSE)
    @@ AuthInputs({0, 1, 3}, {1, 3}, {0, 1, 2}, Credentials)

NextAuth ==
  \E p \in Procs :
    \/ Return(p, AuthRouteInputs)
    \/ RegCheckEmail(p, AuthRouteInputs)
    \/ RegCheckUsername(p)
    \/ RegCommit(p)
    \/ RegToDict(p)
    \/ Login(p, AuthRouteInputs)
    \/ GetProfile(p, AuthRouteInputs)
    \/ Unauthorized(p, AuthRouteInputs)

SpecAuth == Init /\ [][NextAuth]_vars

\* One client sending requests of the seven kinds, one after the other.
AllInputs ==
  Inputs({1}, {1, 2}, {Arg(1), Arg(2)}, {Arg(1), Arg(2)}, {"name"}, FALSE)
    @@ AuthInputs({0, 1, 3}, {1, 3}, {0, 1, 2}, {"valid"})

NextAll ==
  \/ Handler("r1", AllInputs)
  \/ RegCheckEmail("r1", AllInputs)
  \/ RegCheckUsername("r1")
  \/ RegCommit("r1")
  \/ RegToDict("r1")
  \/ Login("r1", AllInputs)

SpecAll == Init /\ [][NextAll]_vars

\* Two requests at a time of the users 1 and 2 on product 1, and Lists of both.
IsoInputs == Inputs({1, 2}, {1}, {Arg(1)}, {Arg(1)}, {"name"}, FALSE)

NextIso == \E p \in Procs : Handler(p, IsoInputs)

SpecIso == Init /\ [][NextIso]_vars

\* The two category routes over every content of column products.category.
InitCat ==
  /\ category \in [Products -> CategoryValues]
  /\ users = UserRows
  /\ nextUserId = 3
  /\ products = Products
  /\ trips = [p \in Procs |-> 0]
  /\ favorites = {}
  /\ nextId = 1
  /\ now = 0
  /\ pc = [p \in Procs |-> "idle"]
  /\ op = [p \in Procs |-> NoReq]
  /\ loc = [p \in Procs |-> NoLoc]
  /\ resp = [p \in Procs |-> NoResp]
  /\ prev = [p \in Procs |-> NoResp]

NextCat ==
  \E p \in Procs :
    \/ Return(p, ConcInputs)
    \/ GetCategories(p)
    \/ GetCategoriesAlias(p)

SpecCat == InitCat /\ [][NextCat]_vars

\* ---------------------------------------------------------------- claims
\* the number of favorites of user u
CountOf(u) == Cardinality(FavoritesOf(u))

\* slot p takes a step of the handler from round-trip a
Leaves(p, a) == pc[p] = a /\ pc'[p] # a

\* C1: in every reachable state, whatever the interleaving of the requests, the
\* table holds at most one favorite row for each (user id, product id) pair.
C1_OneFavoritePerPair ==
  \A f, g \in favorites :
    (f.user_id = g.user_id /\ f.product_id = g.product_id) => f = g

\* C1's case: an insert of a pair that is already a favorite was attempted, and
\* the pair still has its row.
C1_Witness ==
  \E p \in Procs :
    /\ pc[p] = "done" /\ op[p].op = "add" /\ resp[p].status = 500
    /\ resp[p].message = "Error: IntegrityError unique_user_product"
    /\ FilterByPair(op[p].uid, op[p].pid) # {}

\* C2: an Add that reaches its commit when the pair has been written meanwhile
\* (both requests saw the pair absent) is answered 409, the constraint violation
\* being translated into conflict, and writes no row.
C2_SecondAddIsConflict ==
  [][\A p \in Procs :
       (Leaves(p, "add_commit") /\ FilterByPair(op[p].uid, op[p].pid) # {})
         => (pc'[p] = "done" /\ resp'[p].status = 409 /\ favorites' = favorites)]_vars

\* C3: with one client, an Add of an absent pair of an existing user and product
\* inserts exactly one row of that user and is answered 201; the same Add
\* repeated right after it is answered 409 and changes no row.
C3_AddTwice ==
  [][\A p \in Procs :
       LET u == op[p].uid
           pr == op[p].pid
       IN  /\ (Leaves(p, "add_existing") /\ FilterByPair(u, pr) = {})
                => pc'[p] = "add_commit"
           /\ Leaves(p, "add_commit")
                => /\ pc'[p] = "add_to_dict"
                   /\ favorites \subseteq favorites'
                   /\ Cardinality(FavoritesOf(u))' = Cardinality(FavoritesOf(u)) + 1
                   /\ Cardinality(favorites') = Cardinality(favorites) + 1
           /\ Leaves(p, "add_to_dict")
                => resp'[p].status = 201 /\ favorites' = favorites
           /\ (op'[p].op = "add" /\ prev'[p].status = 201 /\ prev'[p].req = op'[p])
                => /\ favorites' = favorites
                   /\ pc'[p] = "done" => resp'[p].status = 409]_vars

\* C3's case: the repeated Add has been answered, right after the Add that succeeded.
C3_Witness ==
  \E p \in Procs :
    /\ pc[p] = "done" /\ op[p].op = "add" /\ resp[p].status = 409
    /\ prev[p].status = 201 /\ prev[p].req = op[p]
    /\ CountOf(op[p].uid) = 2

\* a finished request of kind o at slot p
Done(p, o) == pc[p] = "done" /\ op[p].op = o

\* the response before was the success (status st) of request o on the pair of
\* the request now at slot p
RightAfter(p, o, st) ==
  /\ prev[p].req.op = o /\ prev[p].status = st
  /\ prev[p].req.uid = op[p].uid /\ prev[p].req.pid = op[p].pid

\* C4: with one client, IsFavorite is answered 200 with the presence of the pair
\* in the table, never with an error; right after a successful Add of the pair
\* it answers true, right after a successful Remove of the pair false.
C4_IsFavoriteTellsPresence ==
  \A p \in Procs :
    Done(p, "is_favorite") =>
      /\ resp[p].status = 200 /\ resp[p].success
      /\ resp[p].body.is_favorite \in BOOLEAN
      /\ resp[p].body.is_favorite
           <=> (\E f \in favorites : f.user_id = op[p].uid /\ f.product_id = op[p].pid)
      /\ RightAfter(p, "add", 201) => resp[p].body.is_favorite
      /\ RightAfter(p, "remove", 200) => ~resp[p].body.is_favorite

\* C4's case: IsFavorite has answered false right after the Remove of the pair succeeded.
C4_Witness ==
  \E p \in Procs :
    Done(p, "is_favorite") /\ RightAfter(p, "remove", 200) /\ ~resp[p].body.is_favorite

\* C5: with one client, Remove of an absent pair is answered 404 and changes no
\* row; Remove of a present pair deletes the one row of that pair, leaves every
\* other row as it was and is answered 200.
C5_RemoveFrame ==
  [][\A p \in Procs :
       /\ (pc[p] = "idle" /\ op'[p].op = "remove")
            => /\ favorites' = favorites
               /\ IF \E f \in favorites : f.user_id = op'[p].uid /\ f.product_id = op'[p].pid
                    THEN pc'[p] = "remove_commit"
                    ELSE pc'[p] = "done" /\ resp'[p].status = 404
       /\ Leaves(p, "remove_commit")
            => LET gone == {f \in favorites : f.user_id = op[p].uid /\ f.product_id = op[p].pid}
               IN  /\ Cardinality(gone) = 1
                   /\ favorites' = favorites \ gone
                   /\ resp'[p].status = 200]_vars

\* C5's case: a Remove has deleted its row and other rows are still there.
C5_Witness ==
  \E p \in Procs :
    /\ Done(p, "remove") /\ resp[p].status = 200
    /\ FavoritesOf(op[p].uid) # {}
    /\ favorites # FavoritesOf(op[p].uid)

\* C6: an Add whose user id is no user, or whose product id is no product, is
\* answered 404 with a message naming the missing one, and no favorite row of a
\* missing user or product exists.
C6_AddOfMissing ==
  /\ \A f \in favorites : f.user_id \in Users /\ f.product_id \in Products
  /\ \A p \in Procs :
       (Done(p, "add") /\ (op[p].uid \notin Users \/ op[p].pid \notin Products))
         => /\ resp[p].status = 404 /\ ~resp[p].success
            /\ op[p].uid \notin Users => resp[p].message = "User not found"
            /\ op[p].uid \in Users => resp[p].message = "Product not found"

\* C6's case: an Add of an existing user for a missing product has been answered.
C6_Witness ==
  \E p \in Procs :
    /\ Done(p, "add") /\ op[p].uid \in Users /\ op[p].pid \notin Products
    /\ resp[p].status = 404 /\ favorites # {}

\* C7: ClearAll deletes every favorite of its user and reports as deleted_count
\* the number of rows it deleted, also when another request of that user
\* commits between its count and its delete.
C7_ClearAllCountsItsDeletes ==
  [][\A p \in Procs :
       Leaves(p, "clear_delete")
         => /\ FavoritesOf(op[p].uid)' = {}
            /\ resp'[p].status = 200
            /\ resp'[p].body.deleted_count = Cardinality(favorites) - Cardinality(favorites')]_vars

\* C8: List is answered 200 for every page and per_page; the response reports
\* page 1 for a page below 1, per_page 12 for a per_page below 1, per_page 100
\* for a per_page above 100, and the given value when it is in range (an absent
\* argument counting as page 1, per_page 12).
C8_ListNormalizes ==
  \A p \in Procs :
    Done(p, "list") =>
      LET pg == IF op[p].page.given THEN op[p].page.val ELSE 1
          pp == IF op[p].per_page.given THEN op[p].per_page.val ELSE 12
      IN  /\ resp[p].status = 200 /\ resp[p].success
          /\ pg < 1 => resp[p].body.page = 1
          /\ pg >= 1 => resp[p].body.page = pg
          /\ pp < 1 => resp[p].body.per_page = 12
          /\ pp > 100 => resp[p].body.per_page = 100
          /\ (pp >= 1 /\ pp <= 100) => resp[p].body.per_page = pp

\* C8's case: a List with page 0 and per_page 101 has been answered.
C8_Witness ==
  \E p \in Procs :
    /\ Done(p, "list") /\ op[p].page = Arg(0) /\ op[p].per_page = Arg(101)
    /\ resp[p].body.page = 1 /\ resp[p].body.per_page = 100

\* the smaller of two numbers
Min(a, b) == IF a < b THEN a ELSE b

\* C9: with one client, the items of a List are the products of the favorites at
\* the positions (page-1)*per_page+1 .. min(page*per_page, total) of the user's
\* favorites in the requested order: that many items (none past the last page),
\* each favorite at most once, and the item at position n has fewer than n
\* favorites before it in the order and at least n not after it.
C9_ListPage ==
  \A p \in Procs :
    Done(p, "list") =>
      LET mine == FavoritesOf(op[p].uid)
          total == Cardinality(mine)
          page == resp[p].body.page
          per_page == resp[p].body.per_page
          items == resp[p].body.favorites
          first == (page - 1) * per_page + 1
          last == Min(page * per_page, total)
          rowOf(i) == CHOOSE f \in mine : f.product_id = items[i]
          key(f) == SortKey(f, op[p].sort_by)
      IN  /\ Len(items) = (IF last >= first THEN last - first + 1 ELSE 0)
          /\ Len(items) <= per_page
          /\ \A i \in DOMAIN items : \E f \in mine : f.product_id = items[i]
          /\ \A i, j \in DOMAIN items : i # j => items[i] # items[j]
          /\ \A i \in DOMAIN items :
               LET n == first + i - 1
               IN  /\ Cardinality({f \in mine : key(f) < key(rowOf(i))}) < n
                   /\ Cardinality({f \in mine : key(f) <= key(rowOf(i))}) >= n

\* C9's case: 3 favorites listed 2 a page: page 2 has been answered with the 1 left.
C9_Witness ==
  \E p \in Procs :
    /\ Done(p, "list") /\ CountOf(op[p].uid) = 3
    /\ resp[p].body.per_page = 2 /\ resp[p].body.page = 2
    /\ Len(resp[p].body.favorites) = 1
    /\ op[p].sort_by = "price_desc"

\* C10: in every List response total_pages is ceil(count / per_page), 0 for no
\* favorites, also when a favorite of the user is added or removed while the
\* List runs.
C10_TotalPagesOfCount ==
  \A p \in Procs :
    Done(p, "list") =>
      LET count == resp[p].body.count
          per_page == resp[p].body.per_page
          total_pages == resp[p].body.total_pages
      IN  /\ count = 0 => total_pages = 0 /\ resp[p].body.favorites = <<>>
          /\ count > 0 => /\ (total_pages - 1) * per_page < count
                          /\ count <= total_pages * per_page

\* the user's favorite row behind the item of product pr
RowOf(u, pr) == CHOOSE f \in FavoritesOf(u) : f.product_id = pr

\* C11: with one client, the items of a List come non-decreasing by price for
\* sort_by price_asc, non-increasing by price for price_desc, non-increasing by
\* the time they were added for newest, and non-decreasing by product name for
\* name and for any other sort_by (a missing sort_by is the default 'name').
C11_ListOrder ==
  \A p \in Procs :
    Done(p, "list") =>
      LET items == resp[p].body.favorites
          sb == op[p].sort_by
          price(i) == Catalog[items[i]].price
          name(i) == Catalog[items[i]].name
          added(i) == RowOf(op[p].uid, items[i]).added_at
      IN  \A i, j \in DOMAIN items :
            i < j =>
              /\ sb = "price_asc" => price(i) <= price(j)
              /\ sb = "price_desc" => price(i) >= price(j)
              /\ sb = "newest" => added(i) >= added(j)
              /\ sb \notin {"price_asc", "price_desc", "newest"} => name(i) <= name(j)

\* C11's case: a List by price_desc has been answered with a dearer product
\* before a cheaper one.
C11_Witness ==
  \E p \in Procs :
    /\ Done(p, "list") /\ op[p].sort_by = "price_desc"
    /\ Len(resp[p].body.favorites) >= 2
    /\ Catalog[resp[p].body.favorites[1]].price > Catalog[resp[p].body.favorites[2]].price

\* the client of slot p repeats a List on the store its previous List saw: with
\* one client no request comes between the two
ListAfterList(p) ==
  /\ Done(p, "list") /\ prev[p].req.op = "list" /\ prev[p].status = 200
  /\ prev[p].req.uid = op[p].uid /\ prev[p].req.sort_by = op[p].sort_by
  /\ prev[p].req.per_page = op[p].per_page

\* C12: with one client and no write in between, a List repeated with the same
\* arguments returns the same sequence of items, also when products tie on the
\* sort key, and two different pages of the same listing share no item (so the
\* pages 1..total_pages hold each favorite exactly once).
C12_ListDeterministic ==
  \A p \in Procs :
    ListAfterList(p) =>
      LET a == prev[p].body.favorites
          b == resp[p].body.favorites
      IN  /\ prev[p].req.page = op[p].page => a = b
          /\ prev[p].body.page # resp[p].body.page =>
               \A i \in DOMAIN a, j \in DOMAIN b : a[i] # b[j]

\* C13: in every reachable state every favorite row refers to a user row and to a
\* product row that exist, also while users and products are deleted (with their
\* favorites) next to Adds that have already passed their existence checks.
C13_FavoritesReferToRows ==
  \A f \in favorites :
    /\ \E r \in users : r.id = f.user_id
    /\ f.product_id \in products

\* C13's case: an Add passed its checks, its user or product was deleted before
\* its commit, and the insert was refused; and a deletion has taken favorites along.
C13_Witness ==
  /\ \E p \in Procs :
       /\ Done(p, "add") /\ resp[p].status = 500
       /\ resp[p].message = "Error: IntegrityError foreign key"
  /\ \E p \in Procs :
       /\ Done(p, "delete_user") /\ resp[p].status = 200
       /\ nextId > 1 /\ favorites = {}

\* slot p answers its request in this step
Answers(p) == pc[p] # "done" /\ pc'[p] = "done"

\* C14: whatever the interleaving of the registrations, one whose email is held
\* by a user when the handler looks it up is answered 409 whatever its username,
\* one whose username is held when the handler looks it up is answered 409
\* whatever its email, no registration answered otherwise than 201 creates a
\* user, and no two users ever share an email or a username.
C14_DuplicateRegistration ==
  [][/\ \A p \in Procs :
          /\ (/\ pc[p] = "idle" /\ op'[p].op = "register"
              /\ op'[p].username # 0 /\ op'[p].password # 0
              /\ \E r \in users : r.email = op'[p].email)
               => (pc'[p] = "done" /\ resp'[p].status = 409 /\ users' = users)
          /\ (Leaves(p, "reg_username") /\ \E r \in users : r.username = op[p].username)
               => (pc'[p] = "done" /\ resp'[p].status = 409 /\ users' = users)
          /\ (Answers(p) /\ op'[p].op = "register" /\ resp'[p].status # 201)
               => users' = users
     /\ \A a, b \in users' :
          (a.email = b.email \/ a.username = b.username) => a = b]_vars

\* C14's case: a registration with a held email and a new username and one with
\* a new email and a held username have both been answered 409, and the users
\* are those there were.
C14_Witness ==
  \E p, q \in Procs :
    /\ Done(p, "register") /\ resp[p].status = 409
    /\ (\E r \in users : r.email = op[p].email) /\ (\A r \in users : r.username # op[p].username)
    /\ Done(q, "register") /\ resp[q].status = 409
    /\ (\A r \in users : r.email # op[q].email) /\ (\E r \in users : r.username = op[q].username)
    /\ users = UserRows

\* C15: a Login with both fields given whose email matches no user, and one whose
\* email matches a user with another password, get the same answer: status 401,
\* the one message, and no token, so that the two answers differ in nothing.
C15_LoginFailuresAlike ==
  [][\A p \in Procs :
       (/\ pc[p] = "idle" /\ op'[p].op = "login"
        /\ op'[p].email # 0 /\ op'[p].password # 0
        /\ \/ \A r \in users : r.email # op'[p].email
           \/ \E r \in users : r.email = op'[p].email /\ r.password # op'[p].password)
         => /\ pc'[p] = "done"
            /\ [resp'[p] EXCEPT !.req = NoReq]
                 = [NoResp EXCEPT !.status = 401, !.message = "Wrong email or password"]]_vars

\* C15's case: a Login with an unknown email and a Login with a known email and a
\* wrong password have both been answered.
C15_Witness ==
  \E p, q \in Procs :
    /\ Done(p, "login") /\ op[p].password # 0 /\ op[p].email # 0
    /\ \A r \in users : r.email # op[p].email
    /\ Done(q, "login") /\ op[q].password # 0
    /\ \E r \in users : r.email = op[q].email /\ r.password # op[q].password
    /\ resp[p].status = 401 /\ resp[q].status = 401

\* C16: a request to a protected route that carries no valid bearer credential
\* (no header, a malformed one, an expired token, a badly signed token) is
\* answered 401 without a query sent or a row changed.
C16_RejectedAs401 ==
  [][\A p \in Procs :
       (pc[p] = "idle" /\ op'[p].op \in ProtectedOps /\ op'[p].cred # "valid")
         => /\ pc'[p] = "done" /\ resp'[p].status = 401
            /\ trips'[p] = 0
            /\ <<users, products, favorites>>' = <<users, products, favorites>>]_vars

\* the request of slot p has committed its insert and is reading the row back
HasCommitted(p) == pc[p] \in {"add_to_dict", "reg_to_dict"}

\* C17: a Register, Add, Remove or ClearAll that is answered with an error has
\* changed no row: the answering step changes none, and the request has not
\* committed a change before it.
C17_FailedWritesNothing ==
  [][\A p \in Procs :
       (Answers(p) /\ op'[p].op \in {"register", "add", "remove", "clear"} /\ ~resp'[p].success)
         => /\ <<users, favorites>>' = <<users, favorites>>
            /\ ~HasCommitted(p)]_vars

\* the pair (u, pr) is Present in table tbl
Present(tbl, u, pr) == \E f \in tbl : f.user_id = u /\ f.product_id = pr

\* C18: the status of a pair changes only in a step of a request of that user:
\* from Absent to Present by the insert of an Add of the pair, from Present to
\* Absent by the delete of a Remove of the pair or of a ClearAll; the Add, Remove
\* or ClearAll that changed it is answered with success, and a request that is
\* answered with an error has changed no status.
C18_StatusTransitions ==
  [][/\ \A u \in Users, pr \in Products :
          Present(favorites, u, pr) # Present(favorites', u, pr) =>
            \E p \in Procs :
              /\ op[p].uid = u
              /\ \/ /\ op[p].op = "add" /\ op[p].pid = pr /\ Leaves(p, "add_commit")
                    /\ ~Present(favorites, u, pr)
                 \/ /\ op[p].op = "remove" /\ op[p].pid = pr /\ Leaves(p, "remove_commit")
                    /\ Present(favorites, u, pr) /\ resp'[p].success
                 \/ /\ op[p].op = "clear" /\ Leaves(p, "clear_delete")
                    /\ Present(favorites, u, pr) /\ resp'[p].success
     /\ \A p \in Procs :
          (Leaves(p, "add_to_dict") \/ (Answers(p) /\ ~resp'[p].success))
            => /\ favorites' = favorites
               /\ HasCommitted(p) => resp'[p].success]_vars

\* C19: with one client, a Remove or ClearAll sent again right after the identical
\* request changes no row in any of its steps, the repeated Remove being answered
\* 404 and the repeated ClearAll 200 with deleted_count 0; an Add sent again right
\* after the identical Add was answered 201 or 409 is answered 409.
C19_RepeatedRequests ==
  [][\A p \in Procs :
       prev'[p].req = op'[p] =>
         /\ op'[p].op \in {"remove", "clear"} =>
              /\ favorites' = favorites
              /\ (pc'[p] = "done" /\ op'[p].op = "remove") => resp'[p].status = 404
              /\ (pc'[p] = "done" /\ op'[p].op = "clear") =>
                   (resp'[p].status = 200 /\ resp'[p].body.deleted_count = 0)
         /\ (op'[p].op = "add" /\ prev'[p].status \in {201, 409} /\ pc'[p] = "done")
              => resp'[p].status = 409]_vars

\* C19's case: a Remove that was answered 200 has been sent again and answered 404,
\* while the other user still has a favorite.
C19_Witness ==
  \E p \in Procs :
    /\ Done(p, "remove") /\ prev[p].req = op[p] /\ prev[p].status = 200
    /\ resp[p].status = 404
    /\ favorites # {}

\* the next round-trip of the request slot p is handling
HandlerStep(p) ==
  \/ AddGetProduct(p) \/ AddCheckExisting(p) \/ AddCommit(p) \/ AddToDict(p)
  \/ RemoveCommit(p) \/ ClearDelete(p) \/ ListItems(p) \/ ListPages(p)
  \/ RegCheckUsername(p) \/ RegCommit(p) \/ RegToDict(p)

\* the kinds of request the count is about
CountedOps == {"register", "login", "add", "remove", "is_favorite", "list", "clear"}

\* C20 as stated: every answered request has sent at least 1 and at most 3
\* statements to the store.
C20_OneToThreeRoundTrips ==
  \A p \in Procs :
    (pc[p] = "done" /\ op[p].op \in CountedOps) => (trips[p] >= 1 /\ trips[p] <= 3)

\* C20, amended: a request in flight can always take its next round-trip (none
\* blocks), and an answered request has sent a bounded number of statements: none
\* when it is turned down on its fields (400), 1 for Login and IsFavorite, 2 for
\* ClearAll, at most 2 for Remove, at most 4 for Register, at most 6 for Add, and
\* for List 3 and one more for each item of the page, at most 3 + per_page.
C20_BoundedRoundTrips ==
  \A p \in Procs :
    /\ pc[p] \notin {"idle", "done"} => ENABLED HandlerStep(p)
    /\ pc[p] = "done" =>
         LET n == trips[p]
             o == op[p].op
         IN  /\ resp[p].status = 400 <=> n = 0
             /\ o \in {"login", "is_favorite"} => n <= 1
             /\ o = "clear" => n = 2
             /\ o = "remove" => n <= 2
             /\ o = "register" => n <= 4
             /\ o = "add" => n <= 6
             /\ o = "add" /\ resp[p].status = 201 => n = 6
             /\ o = "list" => /\ n = 3 + Len(resp[p].body.favorites)
                              /\ n <= 3 + resp[p].body.per_page

\* C20's case: a List of two favorites on one page has been answered after 5
\* statements.
C20_Witness ==
  \E p \in Procs :
    /\ Done(p, "list") /\ Len(resp[p].body.favorites) = 2 /\ trips[p] = 5

\* C21: every response with status 500 has success false and the generic message
\* 'Internal server error', which says nothing of the fault that caused it (no
\* exception name, no constraint name, no SQL).
C21_GenericFaultMessage ==
  \A p \in Procs :
    (pc[p] = "done" /\ resp[p].status = 500)
      => (~resp[p].success /\ resp[p].message = "Internal server error")

\* C22: whatever column products.category holds (None and the empty string
\* included), GET /api/products/categories and GET /api/categories answer with the
\* same list, and that list is the distinct categories that are not None, in
\* ascending order.
C22_CategoriesAlias ==
  \A p, q \in Procs :
    (Done(p, "categories") /\ Done(q, "categories_alias")) =>
      LET a == resp[p].body.categories
          b == resp[q].body.categories
      IN  /\ a = b
          /\ {b[i] : i \in DOMAIN b} = {category[pr] : pr \in Products} \ {None}
          /\ \A i, j \in DOMAIN b : i < j => b[i] < b[j]

\* the favorite rows of user u in table tbl
RowsOfUser(tbl, u) == {f \in tbl : f.user_id = u}

\* C23: under every interleaving of two requests, a row appears in or disappears
\* from the table only in a step of an Add, Remove or ClearAll of the row's own
\* user, so that no request of A changes a row of another user B; and what
\* IsFavorite and List of A report is taken from A's rows alone: is_favorite is
\* the presence of A's pair, count is the number of A's rows, and every item of
\* the page is the product of a row of A.
C23_UserIsolation ==
  [][/\ \A f \in (favorites' \ favorites) \cup (favorites \ favorites') :
          \E p \in Procs :
            /\ pc'[p] # pc[p] /\ op[p].op \in {"add", "remove", "clear"}
            /\ op[p].uid = f.user_id
     /\ \A p \in Procs :
          /\ pc'[p] # pc[p] =>
               \A u \in Users : u # op'[p].uid => RowsOfUser(favorites', u) = RowsOfUser(favorites, u)
          /\ (Answers(p) /\ op'[p].op = "is_favorite") =>
               resp'[p].body.is_favorite =
                 (\E f \in RowsOfUser(favorites, op'[p].uid) : f.product_id = op'[p].pid)
          /\ (pc[p] = "idle" /\ op'[p].op = "list") =>
               loc'[p].count = Cardinality(RowsOfUser(favorites, op'[p].uid))
          /\ Leaves(p, "list_items") =>
               \A i \in DOMAIN loc'[p].items : loc'[p].items[i] \in RowsOfUser(favorites, op[p].uid)
          /\ Leaves(p, "list_pages") =>
               /\ resp'[p].body.count = loc[p].count
               /\ resp'[p].body.favorites = [i \in DOMAIN loc[p].items |-> loc[p].items[i].product_id]]_vars

\* C23's case: a ClearAll of one user has deleted that user's favorite and a List
\* of that user has been answered, while the other user's favorite of the same
\* product is still there.
C23_Witness ==
  \E p, q \in Procs :
    /\ Done(p, "clear") /\ resp[p].body.deleted_count = 1
    /\ Done(q, "list") /\ op[q].uid = op[p].uid /\ resp[q].body.count = 1
    /\ \E f \in favorites : f.user_id # op[p].uid
    /\ RowsOfUser(favorites, op[p].uid) = {}

====
